---- MODULE Spec2Model ----
(***************************************************************************)
(* Model of src/src/app/controllers/EnrollmentController.js: the request  *)
(* handlers index, store, update and delete of the Enrollment resource,   *)
(* run as interleaved async functions against one Enrollment table, the   *)
(* Student and Plan tables (read only here), the wall clock and the mail  *)
(* transport.  Every `await` of a handler is one step of its request: the *)
(* awaited call takes effect and the synchronous code up to the next      *)
(* await runs with it.                                                    *)
(*                                                                         *)
(* Dates are instants counted in seconds from 2024-01-01T00:00:00 (the    *)
(* server's zone is UTC); an ISO-8601 text is the tuple of its fields.    *)
(***************************************************************************)
EXTENDS Integers, Sequences, FiniteSets, TLC

\* ------------------------------------------------------------------ bounds

\* Number of requests the server handles at the same time.
NumProcs == 2
\* Number of requests that arrive in one behaviour.
MaxRequests == 3
\* Number of clock ticks in one behaviour.
MaxTicks == 1
\* Number of destroy queries that may be in flight for one student.
MaxDestroying == 2

Procs == 1..NumProcs

\* ------------------------------------------------- calendar (date-fns, Date)

EpochYear == 2024

IsLeapYear(y) == (y % 4 = 0 /\ y % 100 # 0) \/ y % 400 = 0

DaysInYear(y) == IF IsLeapYear(y) THEN 366 ELSE 365

\* date-fns getDaysInMonth; m is a JS month index, 0 = January.
GetDaysInMonth(y, m) ==
    IF m = 1 THEN (IF IsLeapYear(y) THEN 29 ELSE 28)
    ELSE IF m \in {3, 5, 8, 10} THEN 30 ELSE 31

RECURSIVE DaysBeforeYear(_)
DaysBeforeYear(y) ==
    IF y <= EpochYear THEN 0 ELSE DaysBeforeYear(y - 1) + DaysInYear(y - 1)

RECURSIVE DaysBeforeMonth(_, _)
DaysBeforeMonth(y, m) ==
    IF m = 0 THEN 0 ELSE DaysBeforeMonth(y, m - 1) + GetDaysInMonth(y, m - 1)

\* new Date(y, m, d, h, mi, s) for in-range fields.
MakeDate(y, m, d, h, mi, s) ==
    (((DaysBeforeYear(y) + DaysBeforeMonth(y, m) + (d - 1)) * 24 + h) * 60 + mi) * 60 + s

DayIndex(t) == t \div 86400

RECURSIVE YearOfDay(_, _)
YearOfDay(days, y) ==
    IF days < DaysInYear(y) THEN y ELSE YearOfDay(days - DaysInYear(y), y + 1)

GetFullYear(t) == YearOfDay(DayIndex(t), EpochYear)

DayOfYear(t) == DayIndex(t) - DaysBeforeYear(GetFullYear(t))

RECURSIVE MonthOfDay(_, _, _)
MonthOfDay(days, y, m) ==
    IF days < GetDaysInMonth(y, m) THEN m
    ELSE MonthOfDay(days - GetDaysInMonth(y, m), y, m + 1)

GetMonth(t) == MonthOfDay(DayOfYear(t), GetFullYear(t), 0)

GetDate(t) == DayOfYear(t) - DaysBeforeMonth(GetFullYear(t), GetMonth(t)) + 1

GetHours(t) == (t % 86400) \div 3600

GetMinutes(t) == (t % 3600) \div 60

GetSeconds(t) == t % 60

Min(a, b) == IF a < b THEN a ELSE b

\* date-fns parseISO of a well-formed text <<year, month 1..12, day, hour, minute, second>>.
parseISO(text) == MakeDate(text[1], text[2] - 1, text[3], text[4], text[5], text[6])

\* date-fns startOfHour: date.setMinutes(0, 0, 0).
startOfHour(t) ==
    MakeDate(GetFullYear(t), GetMonth(t), GetDate(t), GetHours(t), 0, 0)

\* date-fns isBefore: date.getTime() < dateToCompare.getTime().
isBefore(date, dateToCompare) == date < dateToCompare

\* date-fns addMonths: the first of the desired month gives the month's length,
\* then date.setMonth(desiredMonth, min(daysInMonth, date.getDate())).
addMonths(t, amount) ==
    LET desiredMonth == GetMonth(t) + amount
        year         == GetFullYear(t) + (desiredMonth \div 12)
        month        == desiredMonth % 12
        daysInMonth  == GetDaysInMonth(year, month)
    IN  MakeDate(year, month, Min(daysInMonth, GetDate(t)),
                 GetHours(t), GetMinutes(t), GetSeconds(t))

\* ------------------------------------------------------------- the tables

Null == [null |-> TRUE]

\* Rows of the Student table (models/Student); this controller only reads it.
StudentTable ==
    { [id |-> 1, name |-> "Ana", email |-> "ana@gympoint.com"],
      [id |-> 2, name |-> "Bia", email |-> "bia@gympoint.com"] }

\* Rows of the Plan table (models/Plan); price per month, duration in months.
PlanTable ==
    { [id |-> 1, title |-> "Start", price |-> 12990, duration |-> 1],
      [id |-> 2, title |-> "Gold", price |-> 10990, duration |-> 13] }

\* Model.findByPk: the row with that primary key, or null.
findByPk(table, pk) ==
    IF \E r \in table : r.id = pk THEN CHOOSE r \in table : r.id = pk ELSE Null

\* ------------------------------------------------------------ the requests

\* The clock when the server starts, and the length of one tick of it.
Clock0 == parseISO(<<2024, 1, 31, 10, 0, 0>>)
TickSeconds == 30 * 60

\* A start_date that is no date at all: the schema's Yup.date() refuses it.
Malformed == <<>>

\* Two start_date texts: one on the last day of January whose hour begins at
\* Clock0, one on the hour in March.
January31 == <<2024, 1, 31, 10, 47, 33>>
March15 == <<2024, 3, 15, 11, 0, 0>>

\* The student_id values delete is sent.
StudentIds == {1, 2, 3}

\* req.body of store and update: the three fields are present, start_date
\* is an ISO-8601 text or Malformed.
Body(student_id, plan_id, start_date) ==
    [start_date |-> start_date, plan_id |-> plan_id, student_id |-> student_id]

\* Students 1 and 2 and plans 1 and 2 exist, student 3 and plan 3 do not.
Bodies ==
    { Body(1, 1, March15), Body(2, 1, March15), Body(3, 1, March15),
      Body(1, 2, March15), Body(1, 3, March15),
      Body(1, 1, January31), Body(1, 2, January31), Body(2, 2, January31),
      Body(1, 3, January31), Body(3, 3, January31), Body(3, 2, January31),
      Body(1, 1, Malformed) }

\* req.body of delete.
DeleteBodies == [student_id : StudentIds]

NoBody == [none |-> TRUE]

VARIABLES
    enrollments,   \* rows of the Enrollment table
    nextId,        \* the table's next primary key
    destroying,    \* destroy queries issued by delete and not yet run, per student_id
    now,           \* new Date()
    menu,          \* the bodies the clients send with store and update
    left,          \* number of requests still to arrive
    pc,            \* per request slot: the await its handler is at
    op,            \* per request slot: the handler
    body,          \* per request slot: req.body
    local,         \* per request slot: the handler's constants
    res,           \* per request slot: the response
    hist,          \* per request slot: what the request has done so far
    storeOk        \* per student_id: a store has answered with its enrollment and
                   \* no delete request has been under way since that store came in

vars == <<enrollments, nextId, destroying, now, menu, left, pc, op, body,
          local, res, hist, storeOk>>

NoLocal == [studentEnrollment |-> Null, student |-> Null, plan |-> Null,
            startDate |-> 0, priceTotal |-> 0, endDate |-> 0, enrollment |-> Null]

NoRes == [status |-> 0, error |-> "", json |-> NoBody]

\* wrote: statements the request has sent to the Enrollment table; mailed: the
\* messages it has handed to Mail.sendMail; afterStore: it came in when storeOk held
\* for its student; noDelete: no delete request for its student has been under
\* way since it came in.
NoHist == [wrote |-> 0, mailed |-> <<>>, afterStore |-> FALSE, noDelete |-> FALSE]

\* ---------------------------------------------------- Enrollment queries

EnrollmentsOf(student_id) == { e \in enrollments : e.student_id = student_id }

\* findOne without its where clause.
findOneOfAnyStudent(student_id) ==
    IF enrollments = {} THEN {Null} ELSE enrollments

\* Enrollment.findOne({ where: { student_id } }): the rows it may return; the
\* query states no order, so any matching row may come back.
findOne(student_id) ==
    IF EnrollmentsOf(student_id) = {} THEN {Null} ELSE EnrollmentsOf(student_id)

\* Enrollment.create on the table: the Enrollment model (models/Enrollment)
\* puts no unique constraint on student_id, so the row is always added.
create(rows, row) == rows \cup {row}

\* The DATE attribute of the Enrollment model turns the text it is given
\* into an instant (new Date(text)).
toDate(text) == MakeDate(text[1], text[2] - 1, text[3], text[4], text[5], text[6])

\* schema.isValid(req.body) for the bodies above.
isValid(b) == b.start_date # Malformed

\* const priceTotal = price * duration
PriceTotal(plan) == plan.price * plan.duration

\* const startDate = startOfHour(parseISO(start_date))
StartDate(start_date) == startOfHour(parseISO(start_date))

\* The date check with the present hour refused as well.
IsPastOrNow(startDate, today) == startDate <= today

\* isBefore(startDate, new Date())
IsPast(startDate, today) == isBefore(startDate, today)

\* The end date with every month taken as thirty days.
EndDateByDays(startDate, plan) == startDate + plan.duration * 30 * 86400

\* const endDate = addMonths(startDate, duration)
EndDate(startDate, plan) == addMonths(startDate, plan.duration)

\* The values store gives Enrollment.create and update gives instance.update:
\* { student_id, plan_id, start_date, end_date: endDate, price: priceTotal }.
Values(p) ==
    [student_id |-> body[p].student_id,
     plan_id    |-> body[p].plan_id,
     start_date |-> toDate(body[p].start_date),
     end_date   |-> local[p].endDate,
     price      |-> local[p].priceTotal]

Row(id, v) ==
    [id |-> id, student_id |-> v.student_id, plan_id |-> v.plan_id,
     start_date |-> v.start_date, end_date |-> v.end_date, price |-> v.price]

\* date-fns format(date, "'dia' dd 'de' MMMM', as' H:mm'h'"): the fields it prints.
format(t) == <<GetDate(t), GetMonth(t) + 1, GetHours(t), GetMinutes(t)>>

\* The message store hands to Mail.sendMail.
Message(p) ==
    [to      |-> <<local[p].student.name, local[p].student.email>>,
     student |-> local[p].student.name,
     start   |-> format(local[p].enrollment.start_date),
     plan    |-> local[p].plan.title,
     price   |-> local[p].enrollment.price,
     end     |-> format(local[p].enrollment.end_date)]

DeletesUnderWay(student_id) ==
    { q \in Procs : op[q] = "delete" /\ pc[q] = "findOne"
                    /\ body[q].student_id = student_id }

\* An enrollment a store made before the server started.
SeedRow ==
    LET plan == findByPk(PlanTable, 1)
        text == March15
    IN  Row(1, [student_id |-> 1, plan_id |-> plan.id, start_date |-> toDate(text),
                end_date |-> addMonths(StartDate(text), plan.duration),
                price |-> PriceTotal(plan)])

\* The server starts on an Enrollment table that is empty or holds SeedRow.
Start ==
    /\ \E rows \in {{}, {SeedRow}} :
         /\ enrollments = rows
         /\ nextId = Cardinality(rows) + 1
    /\ destroying = [s \in StudentIds |-> 0]
    /\ now = Clock0
    /\ pc = [p \in Procs |-> "idle"]
    /\ op = [p \in Procs |-> "none"]
    /\ body = [p \in Procs |-> NoBody]
    /\ local = [p \in Procs |-> NoLocal]
    /\ res = [p \in Procs |-> NoRes]
    /\ hist = [p \in Procs |-> NoHist]
    /\ storeOk = [s \in StudentIds |-> FALSE]

\* Clients send any of Bodies.
Init == Start /\ menu = Bodies /\ left = MaxRequests

\* Clients send one and the same body with every store and update.
SameBody == { Body(1, 1, March15) }

InitSameBody == Start /\ menu = SameBody /\ left = MaxRequests + 1

\* ------------------------------------------------- the steps of a handler

\* The handler returns with response r; its constants go with it.
Return(p, r) ==
    /\ pc' = [pc EXCEPT ![p] = "done"]
    /\ res' = [res EXCEPT ![p] = r]
    /\ local' = [local EXCEPT ![p] = NoLocal]

\* return res.status(status).json({ error })
Error(status, error) == [status |-> status, error |-> error, json |-> NoBody]

\* return res.json(value)
Json(value) == [status |-> 200, error |-> "", json |-> value]

\* The handler starts and runs to its first query, at label.
Begin(p, label) ==
    /\ pc' = [pc EXCEPT ![p] = label]
    /\ local' = [local EXCEPT ![p] = NoLocal]
    /\ res' = [res EXCEPT ![p] = NoRes]

\* The handler goes on to its next await with constants l.
Await(p, label, l) ==
    /\ pc' = [pc EXCEPT ![p] = label]
    /\ local' = [local EXCEPT ![p] = l]
    /\ UNCHANGED res

\* ------------------------------------------------------- requests arriving

Free(p) == pc[p] \in {"idle", "done"} /\ left > 0

\* The router calls the handler, which runs to its first query: index and
\* delete at once, store and update once schema.isValid has answered.
Arrive(p, handler, b) ==
    /\ left' = left - 1
    /\ op' = [op EXCEPT ![p] = handler]
    /\ body' = [body EXCEPT ![p] = b]
    /\ UNCHANGED <<enrollments, nextId, destroying, now, menu>>

ReceiveIndex(p) ==
    /\ Free(p)
    /\ Arrive(p, "index", NoBody)
    /\ Begin(p, "findAll")
    /\ hist' = [hist EXCEPT ![p] = NoHist]
    /\ UNCHANGED storeOk

ReceiveStore(p) ==
    /\ Free(p)
    /\ \E b \in menu :
         /\ Arrive(p, "store", b)
         /\ IF ~isValid(b)
              THEN Return(p, Error(400, "Validation fails"))
              ELSE Begin(p, "findOne")
         /\ hist' = [hist EXCEPT ![p] =
                       [NoHist EXCEPT !.afterStore = storeOk[b.student_id],
                                      !.noDelete = DeletesUnderWay(b.student_id) = {}]]
    /\ UNCHANGED storeOk

ReceiveUpdate(p) ==
    /\ Free(p)
    /\ \E b \in menu :
         /\ Arrive(p, "update", b)
         /\ IF ~isValid(b)
              THEN Return(p, Error(400, "Validation fails"))
              ELSE Begin(p, "findOne")
    /\ hist' = [hist EXCEPT ![p] = NoHist]
    /\ UNCHANGED storeOk

ReceiveDelete(p) ==
    /\ Free(p)
    /\ \E b \in DeleteBodies :
         /\ destroying[b.student_id] + Cardinality(DeletesUnderWay(b.student_id))
              < MaxDestroying
         /\ Arrive(p, "delete", b)
         /\ Begin(p, "findOne")
         /\ hist' = [q \in Procs |->
                       IF q = p THEN NoHist
                       ELSE IF op[q] = "store" /\ body[q].student_id = b.student_id
                            THEN [hist[q] EXCEPT !.noDelete = FALSE]
                            ELSE hist[q]]
         /\ storeOk' = [storeOk EXCEPT ![b.student_id] = FALSE]

\* ------------------------------------------------------------------- index

IndexRow(e) ==
    LET student == findByPk(StudentTable, e.student_id)
        plan    == findByPk(PlanTable, e.plan_id)
    IN  [enrollment |-> e,
         student |-> IF student = Null THEN Null
                     ELSE [id |-> student.id, name |-> student.name,
                           email |-> student.email],
         plan    |-> IF plan = Null THEN Null
                     ELSE [id |-> plan.id, title |-> plan.title,
                           duration |-> plan.duration]]

IndexFindAll(p) ==
    /\ op[p] = "index" /\ pc[p] = "findAll"
    /\ Return(p, Json({ IndexRow(e) : e \in enrollments }))
    /\ UNCHANGED <<enrollments, nextId, destroying, now, menu, left, op, body,
                   hist, storeOk>>

\* ------------------------------------------------------------------- store

\* const studentEnrollment = await Enrollment.findOne(...) and the check of it.
StoreFindOne(p) ==
    /\ op[p] = "store" /\ pc[p] = "findOne"
    /\ \E studentEnrollment \in findOne(body[p].student_id) :
         IF studentEnrollment # Null
           THEN Return(p, Error(401, "Student already has an enrollment"))
           ELSE Await(p, "findByPk",
                      [local[p] EXCEPT !.studentEnrollment = studentEnrollment])
    /\ UNCHANGED <<enrollments, nextId, destroying, now, menu, left, op, body,
                   hist, storeOk>>

\* The checks of store with the plan looked at before the student.
StoreCheckPlanFirst(student, plan, start_date, today) ==
    IF plan = Null THEN Error(401, "The plan was not found.")
    ELSE IF student = Null THEN Error(401, "Student no exists")
    ELSE IF IsPast(StartDate(start_date), today)
      THEN Error(400, "Past date are not permitted")
    ELSE Null

\* The checks of store between its lookups and Enrollment.create, in the
\* order of the code: the response of the first that fails, or Null.
StoreCheck(student, plan, start_date, today) ==
    IF student = Null THEN Error(401, "Student no exists")
    ELSE IF plan = Null THEN Error(401, "The plan was not found.")
    ELSE IF IsPast(StartDate(start_date), today)
      THEN Error(400, "Past date are not permitted")
    ELSE Null

\* Student.findByPk, Plan.findByPk (tables nothing here writes) and the code
\* from the check of the student to the call of Enrollment.create.
StoreFindByPk(p) ==
    /\ op[p] = "store" /\ pc[p] = "findByPk"
    /\ LET student   == findByPk(StudentTable, body[p].student_id)
           plan      == findByPk(PlanTable, body[p].plan_id)
           startDate == StartDate(body[p].start_date)
           failed    == StoreCheck(student, plan, body[p].start_date, now)
       IN  IF failed # Null
             THEN Return(p, failed)
             ELSE Await(p, "create",
                        [local[p] EXCEPT !.student = student,
                                         !.plan = plan,
                                         !.startDate = startDate,
                                         !.priceTotal = PriceTotal(plan),
                                         !.endDate = EndDate(startDate, plan)])
    /\ UNCHANGED <<enrollments, nextId, destroying, now, menu, left, op, body,
                   hist, storeOk>>

\* const enrollment = await Enrollment.create({ ... })
StoreCreate(p) ==
    /\ op[p] = "store" /\ pc[p] = "create"
    /\ LET enrollment == Row(nextId, Values(p)) IN
         /\ enrollments' = create(enrollments, enrollment)
         /\ Await(p, "sendMail", [local[p] EXCEPT !.enrollment = enrollment])
    /\ nextId' = nextId + 1
    /\ hist' = [hist EXCEPT ![p].wrote = @ + 1]
    /\ UNCHANGED <<destroying, now, menu, left, op, body, storeOk>>

\* await Mail.sendMail(...); return res.json(enrollment).  When the transport
\* rejects, the await throws out of the handler: the request ends without
\* the enrollment, shown here as status 500.
StoreSendMail(p) ==
    /\ op[p] = "store" /\ pc[p] = "sendMail"
    /\ hist' = [hist EXCEPT ![p].mailed = Append(@, Message(p))]
    /\ \E delivered \in BOOLEAN :
         IF delivered
           THEN /\ Return(p, Json(local[p].enrollment))
                /\ storeOk' = [storeOk EXCEPT ![body[p].student_id] =
                                 hist[p].noDelete]
           ELSE /\ Return(p, Error(500, "Mail.sendMail rejected"))
                /\ UNCHANGED storeOk
    /\ UNCHANGED <<enrollments, nextId, destroying, now, menu, left, op, body>>

\* ------------------------------------------------------------------ update

UpdateFindOne(p) ==
    /\ op[p] = "update" /\ pc[p] = "findOne"
    /\ \E studentEnrollment \in findOne(body[p].student_id) :
         IF studentEnrollment = Null
           THEN Return(p, Error(401, "The student does not have enrollment"))
           ELSE Await(p, "findByPk",
                      [local[p] EXCEPT !.studentEnrollment = studentEnrollment])
    /\ UNCHANGED <<enrollments, nextId, destroying, now, menu, left, op, body,
                   hist, storeOk>>

\* The checks of update between its lookups and studentEnrollment.update.
UpdateCheck(student, plan, start_date, today) ==
    IF student = Null THEN Error(401, "The Student was not found")
    ELSE IF plan = Null THEN Error(401, "The plan was not found.")
    ELSE IF IsPast(StartDate(start_date), today)
      THEN Error(400, "Past date are not permitted")
    ELSE Null

UpdateFindByPk(p) ==
    /\ op[p] = "update" /\ pc[p] = "findByPk"
    /\ LET student   == findByPk(StudentTable, body[p].student_id)
           plan      == findByPk(PlanTable, body[p].plan_id)
           startDate == StartDate(body[p].start_date)
           failed    == UpdateCheck(student, plan, body[p].start_date, now)
       IN  IF failed # Null
             THEN Return(p, failed)
             ELSE Await(p, "save",
                        [local[p] EXCEPT !.student = student,
                                         !.plan = plan,
                                         !.startDate = startDate,
                                         !.priceTotal = PriceTotal(plan),
                                         !.endDate = EndDate(startDate, plan)])
    /\ UNCHANGED <<enrollments, nextId, destroying, now, menu, left, op, body,
                   hist, storeOk>>

\* await studentEnrollment.update({ ... }): UPDATE ... WHERE id = the instance's
\* id, which changes no row when the row is gone; the instance carries the new
\* values either way.  return res.json(enrollment).
UpdateSave(p) ==
    /\ op[p] = "update" /\ pc[p] = "save"
    /\ LET id == local[p].studentEnrollment.id IN
         /\ enrollments' = { IF e.id = id THEN Row(id, Values(p)) ELSE e :
                             e \in enrollments }
         /\ Return(p, Json(Row(id, Values(p))))
    /\ hist' = [hist EXCEPT ![p].wrote = @ + 1]
    /\ UNCHANGED <<nextId, destroying, now, menu, left, op, body, storeOk>>

\* ------------------------------------------------------------------ delete

\* Enrollment.destroy({ where: { student_id } }) is called without await: the
\* query is on its way when res.json(studentEnrollment) answers.
DeleteFindOne(p) ==
    /\ op[p] = "delete" /\ pc[p] = "findOne"
    /\ \E studentEnrollment \in findOne(body[p].student_id) :
         IF studentEnrollment = Null
           THEN /\ Return(p, Error(401, "The student does not have enrollment"))
                /\ UNCHANGED <<destroying, hist>>
           ELSE /\ destroying' = [destroying EXCEPT ![body[p].student_id] = @ + 1]
                /\ hist' = [hist EXCEPT ![p].wrote = @ + 1]
                /\ Return(p, Json(studentEnrollment))
    /\ UNCHANGED <<enrollments, nextId, now, menu, left, op, body, storeOk>>

\* A destroy query reaches the table: DELETE ... WHERE student_id = ...
DestroyQuery(student_id) ==
    /\ destroying[student_id] > 0
    /\ destroying' = [destroying EXCEPT ![student_id] = @ - 1]
    /\ enrollments' = enrollments \ EnrollmentsOf(student_id)
    /\ UNCHANGED <<nextId, now, menu, left, pc, op, body, local, res, hist,
                   storeOk>>

\* ------------------------------------------------------------------- clock

Tick ==
    /\ now < Clock0 + MaxTicks * TickSeconds
    /\ now' = now + TickSeconds
    /\ UNCHANGED <<enrollments, nextId, destroying, menu, left, pc, op, body,
                   local, res, hist, storeOk>>

Next ==
    \/ Tick
    \/ \E p \in Procs :
         \/ ReceiveIndex(p) \/ ReceiveStore(p) \/ ReceiveUpdate(p) \/ ReceiveDelete(p)
         \/ IndexFindAll(p)
         \/ StoreFindOne(p) \/ StoreFindByPk(p) \/ StoreCreate(p) \/ StoreSendMail(p)
         \/ UpdateFindOne(p) \/ UpdateFindByPk(p) \/ UpdateSave(p)
         \/ DeleteFindOne(p)
    \/ \E student_id \in StudentIds : DestroyQuery(student_id)

Spec == Init /\ [][Next]_vars

SpecSameBody == InitSameBody /\ [][Next]_vars
\* ------------------------------------------------ the spec's words for responses

AlreadyEnrolled == Error(401, "Student already has an enrollment")
NotEnrolled == Error(401, "The student does not have enrollment")
PlanNotFound == Error(401, "The plan was not found.")
PastDate == Error(400, "Past date are not permitted")
StudentNotFound(handler) ==
    IF handler = "store" THEN Error(401, "Student no exists")
    ELSE Error(401, "The Student was not found")

\* The supplied start date as an instant, and the start of its hour.
Supplied(b) == parseISO(b.start_date)
HourOf(t) == t - (t % 3600)

\* The <<year, month>> that lies n months after month m of year y.
RECURSIVE RollMonths(_, _, _)
RollMonths(y, m, n) ==
    IF n = 0 THEN <<y, m>>
    ELSE IF m = 11 THEN RollMonths(y + 1, 0, n - 1)
    ELSE RollMonths(y, m + 1, n - 1)

\* t plus n calendar months, the day clamped to the last day of that month.
MonthsLater(t, n) ==
    LET ym   == RollMonths(GetFullYear(t), GetMonth(t), n)
        last == GetDaysInMonth(ym[1], ym[2])
        day  == IF GetDate(t) > last THEN last ELSE GetDate(t)
    IN  MakeDate(ym[1], ym[2], day, GetHours(t), GetMinutes(t), GetSeconds(t))

StudentExists(id) == \E r \in StudentTable : r.id = id
PlanExists(id) == \E r \in PlanTable : r.id = id
PlanOf(id) == CHOOSE r \in PlanTable : r.id = id

\* Request p takes the step it is waiting to take at label.
Steps(p, handlers, label) ==
    op[p] \in handlers /\ pc[p] = label /\ pc'[p] # label

\* ------------------------------------------------------------------ claims

\* C1: in every reachable state the Enrollment table holds at most one row
\* per student_id, whatever store, update and delete requests arrive and
\* however their steps interleave.
AtMostOneEnrollmentPerStudent ==
    \A s \in StudentIds : Cardinality(EnrollmentsOf(s)) <= 1

\* C2: a store with a well-formed body that arrives after a store for the same
\* student has answered with its enrollment, no delete request for that
\* student having been under way from the arrival of the first store on, is
\* refused by its lookup: it ends with AlreadyEnrolled, writes nothing and
\* sends no mail.
SecondStoreIsRefused ==
    \A p \in Procs :
        (/\ op[p] = "store" /\ pc[p] # "findOne"
         /\ isValid(body[p])
         /\ hist[p].afterStore /\ hist[p].noDelete)
        => (/\ pc[p] = "done"
            /\ res[p] = AlreadyEnrolled
            /\ hist[p].wrote = 0
            /\ hist[p].mailed = <<>>)

\* C4: once delete has answered with the enrollment it found, the row it
\* returned is no longer in the table.
DeletedRowIsGone ==
    \A p \in Procs :
        (op[p] = "delete" /\ pc[p] = "done" /\ res[p].status = 200)
        => ~ \E e \in enrollments : e.id = res[p].json.id

\* C6: the start_date that a store has created or an update has answered is
\* the supplied start date cut to the start of its hour, and every stored
\* end_date is the stored start_date plus the plan's duration in months.
StoredStartDateIsTruncated ==
    /\ \A p \in Procs :
         /\ (op[p] = "store" /\ pc[p] = "sendMail")
            => local[p].enrollment.start_date = HourOf(Supplied(body[p]))
         /\ (op[p] = "update" /\ pc[p] = "done" /\ res[p].status = 200)
            => res[p].json.start_date = HourOf(Supplied(body[p]))
    /\ \A e \in enrollments :
         e.end_date = MonthsLater(e.start_date, PlanOf(e.plan_id).duration)

\* C8: a store that has persisted its enrollment answers with that
\* enrollment, whether Mail.sendMail resolved or rejected.
PersistedStoreSucceeds ==
    \A p \in Procs :
        (op[p] = "store" /\ pc[p] = "done" /\ hist[p].wrote > 0)
        => (res[p].status = 200 /\ res[p].json.student_id = body[p].student_id)

\* C9: Mail.sendMail is called exactly once by a store that succeeds, after
\* the enrollment is persisted and with the student and the plan of that
\* request; no update, delete or index calls it, nor does a store that fails.
MailOncePerSuccessfulStore ==
    \A p \in Procs :
        /\ op[p] # "store" => hist[p].mailed = <<>>
        /\ (op[p] = "store" /\ pc[p] = "done" /\ res[p].status = 200)
           => /\ Len(hist[p].mailed) = 1
              /\ \E student \in StudentTable :
                   /\ student.id = body[p].student_id
                   /\ hist[p].mailed[1].student = student.name
                   /\ hist[p].mailed[1].to = <<student.name, student.email>>
              /\ hist[p].mailed[1].plan = PlanOf(body[p].plan_id).title
        /\ (op[p] = "store" /\ pc[p] = "done" /\ res[p].status # 200)
           => hist[p].mailed = <<>>
        /\ hist[p].mailed # <<>> => hist[p].wrote = 1

\* C3: an update or a delete whose lookup finds no enrollment of its student
\* ends with NotEnrolled, and neither it nor its step changes the table or
\* sends a destroy query.
NotEnrolledStep ==
    \A p \in Procs :
        (/\ Steps(p, {"update", "delete"}, "findOne")
         /\ EnrollmentsOf(body[p].student_id) = {})
        => (/\ pc'[p] = "done"
            /\ res'[p] = NotEnrolled
            /\ enrollments' = enrollments
            /\ destroying' = destroying
            /\ hist[p].wrote = 0
            /\ hist'[p].wrote = 0)

NotEnrolledLeavesTable == [][NotEnrolledStep]_vars

\* An update and a delete have ended with NotEnrolled while another student
\* is enrolled.
NotEnrolledSeen ==
    \E p, q \in Procs :
        /\ op[p] = "update" /\ pc[p] = "done" /\ res[p] = NotEnrolled
        /\ op[q] = "delete" /\ pc[q] = "done" /\ res[q] = NotEnrolled
        /\ enrollments # {}
        /\ EnrollmentsOf(body[p].student_id) = {}
        /\ EnrollmentsOf(body[q].student_id) = {}

\* Row e carries the price and the end date that plan plan_id and the start
\* date start give.
Derived(e, plan_id, start) ==
    /\ e.plan_id = plan_id
    /\ PlanExists(plan_id)
    /\ e.price = PlanOf(plan_id).price * PlanOf(plan_id).duration
    /\ e.end_date = MonthsLater(HourOf(start), PlanOf(plan_id).duration)

PastDateStep ==
    \A p \in Procs :
        Steps(p, {"store", "update"}, "findByPk")
        => LET reached == StudentExists(body[p].student_id)
                          /\ PlanExists(body[p].plan_id)
               past    == HourOf(Supplied(body[p])) < now
           IN  /\ (res'[p] = PastDate) <=> (reached /\ past)
               /\ res'[p] = PastDate
                  => (/\ pc'[p] = "done"
                      /\ enrollments' = enrollments
                      /\ destroying' = destroying
                      /\ hist'[p].wrote = 0
                      /\ hist'[p].mailed = <<>>)

PastDateOnlyByItsCheck ==
    \A p \in Procs :
        (res'[p] = PastDate /\ res[p] # PastDate)
        => Steps(p, {"store", "update"}, "findByPk")

PastDateExactly == [][PastDateStep /\ PastDateOnlyByItsCheck]_vars

\* One request was let through with a start date whose hour begins at the
\* instant of its check; another was refused with PastDate although the
\* supplied start date is still ahead of the clock.
PastDateSeen ==
    \E p, q \in Procs :
        /\ pc[p] = "done" /\ res[p] = PastDate
        /\ Supplied(body[p]) > now
        /\ op[q] \in {"store", "update"} /\ pc[q] = "done" /\ res[q].status = 200
        /\ HourOf(Supplied(body[q])) = Clock0

\* C10: store reports the first failing check in the order AlreadyEnrolled,
\* StudentNotFound, PlanNotFound, PastDate, and writes only when none fails:
\* its lookup ends it with AlreadyEnrolled when the student has an enrollment
\* and lets it go on otherwise; its next step ends it with the first of
\* StudentNotFound, PlanNotFound, PastDate that holds and lets it go on
\* to Enrollment.create otherwise; it writes only from there.
StoreCheckStep ==
    \A p \in Procs :
        /\ Steps(p, {"store"}, "findOne")
           => IF EnrollmentsOf(body[p].student_id) # {}
                THEN pc'[p] = "done" /\ res'[p] = AlreadyEnrolled
                ELSE pc'[p] = "findByPk"
        /\ Steps(p, {"store"}, "findByPk")
           => IF ~ StudentExists(body[p].student_id)
                THEN pc'[p] = "done" /\ res'[p] = StudentNotFound("store")
              ELSE IF ~ PlanExists(body[p].plan_id)
                THEN pc'[p] = "done" /\ res'[p] = PlanNotFound
              ELSE IF HourOf(Supplied(body[p])) < now
                THEN pc'[p] = "done" /\ res'[p] = PastDate
              ELSE pc'[p] = "create"
        /\ (op[p] = "store" /\ op'[p] = "store" /\ hist'[p].wrote > hist[p].wrote)
           => pc[p] = "create"
        /\ (op'[p] = "store" /\ pc'[p] = "create" /\ pc[p] # "create")
           => Steps(p, {"store"}, "findByPk")
        /\ (op'[p] = "store" /\ pc'[p] = "findByPk" /\ pc[p] # "findByPk")
           => Steps(p, {"store"}, "findOne")

StoreReportsFirstFailure == [][StoreCheckStep]_vars

\* A store for an enrolled student with a missing plan ended with
\* AlreadyEnrolled, and a store for a missing student with a missing plan and
\* a past start date ended with StudentNotFound.
FirstFailureSeen ==
    \E p, q \in Procs :
        /\ op[p] = "store" /\ pc[p] = "done" /\ res[p] = AlreadyEnrolled
        /\ ~ PlanExists(body[p].plan_id)
        /\ op[q] = "store" /\ pc[q] = "done" /\ res[q] = StudentNotFound("store")
        /\ ~ PlanExists(body[q].plan_id)
        /\ HourOf(Supplied(body[q])) < now

====
